---- MODULE Spec2Model ----
(***************************************************************************)
(* The account balance ledger of swiftpay: BalanceService.updateBalance    *)
(* and BalanceService.transferBalance running as concurrent PostgreSQL     *)
(* transactions over the balances and balance_operations tables.           *)
(*                                                                         *)
(* Every `await client.query(...)` of the service is one step: the         *)
(* statement executes against the store and the synchronous code up to the *)
(* next statement runs with it.  The service opens its transactions with a *)
(* plain BEGIN, so statements run at the store's default READ COMMITTED    *)
(* level: a SELECT sees the committed rows plus the transaction's own      *)
(* writes, an UPDATE or INSERT takes the row lock until the transaction    *)
(* ends, and a statement that needs a lock held by another transaction     *)
(* waits for it.  Amounts are integers counted in units of 10^-8, the      *)
(* scale of the DECIMAL(20,8) columns.                                     *)
(***************************************************************************)
EXTENDS Integers, FiniteSets, Sequences, TLC

\* ----- bounds ------------------------------------------------------------
MaxTxns == 2          \* calls issued in one behaviour, numbered in order of arrival
MaxAmount == 2        \* largest amount a caller supplies
MaxInitial == 2       \* largest available balance before the first call
DebitN == 3           \* N of the concurrent-debit stress scenario
MaxSnapshots == 2     \* createDailySnapshot calls in the snapshot scenario
MaxHistoryOps == 3    \* ledger calls in the history scenario
MaxLimit == 2         \* largest limit passed to getBalanceHistory
MaxOffset == 2        \* largest offset passed to getBalanceHistory
MaxDebitAll == 3      \* largest balance in the two-debit scenario
MaxBulk == 3          \* longest bulk-update array enumerated operation by operation
MaxPageOps == 101     \* credits committed before the history route is requested

Txns == 1..MaxTxns
DebitTxns == 1..DebitN
AllTxns == Txns \cup DebitTxns
Accounts == {1, 2}
Amounts == (0 - 1)..MaxAmount
OperationTypes == {"credit", "debit", "reserve", "release"}
\* the caller-supplied reference of a request
References == {"ref-1"}
RetryReferences == {"ref-1", "ref-2"}
\* every request of the model is in one currency; a history query may name
\* it, name another one, or name none
Currency == "USD"
CurrencyFilters == {"", "USD", "EUR"}
SnapshotCalls == 1..MaxSnapshots
HistoryTxns == 1..MaxHistoryOps
\* the Date handed to createDailySnapshot: a UTC day and a time of that day
Instants == [day : {1, 2}, time : {"00:30", "23:30"}]
PageTxns == 1..MaxPageOps
\* a query-string value is a sequence of characters; <<>> is an absent one
LimitStrings == {<<>>, <<"0">>, <<"2">>, <<"1", "0", "0">>, <<"1", "0", "1">>,
                 <<"a", "b", "c">>, <<"7", "x">>}
OffsetStrings == {<<>>, <<"1">>}

\* ----- rows ---------------------------------------------------------------
\* A row of the balances table; exists = FALSE stands for "no such row".
Row(a, r, tot) == [exists |-> TRUE, available |-> a, reserved |-> r, total |-> tot]
NoRow == [exists |-> FALSE, available |-> 0, reserved |-> 0, total |-> 0]
\* INSERT INTO balances (account_id, currency): every numeric column DEFAULT 0
DefaultRow == Row(0, 0, 0)

VARIABLES
    balances,     \* committed balances table: account -> row
    operations,   \* committed balance_operations table: set of rows
    rowCount,     \* committed balances table: number of rows per account
    tx,           \* per call: position in the handler and its locals
    snapshots,    \* committed balance_snapshots table: set of rows
    snap,         \* per createDailySnapshot call: position and locals
    history,      \* the last getBalanceHistory call and what it returned
    bulk,         \* the bulk-update request being served by the balance router
    dispatched    \* the last request the balance router dispatched

vars == <<balances, operations, rowCount, tx, snapshots, snap, history, bulk, dispatched>>
readSide == <<snapshots, snap, history, bulk, dispatched>>

IdleTx == [pc |-> "idle", kind |-> "none", accountId |-> 1, toAccountId |-> 1,
           operationType |-> "none", amount |-> 0, reference |-> "none",
           balance |-> NoRow, toBalance |-> NoRow,
           writes |-> [a \in Accounts |-> NoRow],
           inserted |-> {},                          \* rows it has INSERTed
           opStatus |-> "none",
           result |-> NoRow, toResult |-> NoRow,
           error |-> "none", failedAt |-> "none",
           solo |-> TRUE,                            \* no other call overlapped it
           pre |-> [a \in Accounts |-> NoRow]]       \* committed rows when it began

InFlight(t) == tx[t].pc \notin {"idle", "done", "failed"}
Finished(t) == tx[t].pc \in {"done", "failed"}

\* ----- pure functions of the service --------------------------------------
\* validateBalanceOperation: the message of the Error it throws, or "ok"
ValidateBalanceOperationLte(balance, operationType, amount) ==
    CASE operationType = "debit" /\ balance.available <= amount -> "Insufficient available balance"
      [] operationType = "release" /\ balance.reserved <= amount -> "Insufficient reserved balance"
      [] operationType = "reserve" /\ balance.available <= amount -> "Insufficient balance to reserve"
      [] OTHER -> "ok"

ValidateBalanceOperation(balance, operationType, amount) ==
    CASE operationType = "debit" /\ balance.available < amount -> "Insufficient available balance"
      [] operationType = "release" /\ balance.reserved < amount -> "Insufficient reserved balance"
      [] operationType = "reserve" /\ balance.available < amount -> "Insufficient balance to reserve"
      [] OTHER -> "ok"

\* applyBalanceOperation, the values it computes and passes to the UPDATE
NewBalanceStaleTotal(balance, operationType, amount) ==
    LET av == CASE operationType \in {"credit", "release"} -> balance.available + amount
                [] operationType \in {"debit", "reserve"} -> balance.available - amount
                [] OTHER -> balance.available
        rs == CASE operationType = "reserve" -> balance.reserved + amount
                [] operationType = "release" -> balance.reserved - amount
                [] OTHER -> balance.reserved
    IN Row(av, rs, balance.total)

NewBalanceReserveOnly(balance, operationType, amount) ==
    LET av == CASE operationType \in {"credit", "release"} -> balance.available + amount
                [] operationType \in {"debit"} -> balance.available - amount
                [] OTHER -> balance.available
        rs == CASE operationType = "reserve" -> balance.reserved + amount
                [] operationType = "release" -> balance.reserved - amount
                [] OTHER -> balance.reserved
    IN Row(av, rs, av + rs)

NewBalance(balance, operationType, amount) ==
    LET av == CASE operationType \in {"credit", "release"} -> balance.available + amount
                [] operationType \in {"debit", "reserve"} -> balance.available - amount
                [] OTHER -> balance.available
        rs == CASE operationType = "reserve" -> balance.reserved + amount
                [] operationType = "release" -> balance.reserved - amount
                [] OTHER -> balance.reserved
    IN Row(av, rs, av + rs)

\* ----- the store ----------------------------------------------------------
\* what a statement of transaction t sees of the row of account a
View(t, a) == IF tx[t].writes[a].exists THEN tx[t].writes[a] ELSE balances[a]

LockedByOtherAnyRow(t, a) ==
    \E u \in DOMAIN tx : u # t /\ InFlight(u) /\ \E b \in Accounts : tx[u].writes[b].exists

\* the row lock of account a is held by another transaction in flight
LockedByOther(t, a) ==
    \E u \in DOMAIN tx : u # t /\ InFlight(u) /\ tx[u].writes[a].exists

CommitBalancesDropsWrites(committed, writes) == committed

\* COMMIT makes the transaction's row versions the committed ones
CommitBalances(committed, writes) ==
    [a \in Accounts |-> IF writes[a].exists THEN writes[a] ELSE committed[a]]

\* ROLLBACK discards them
RollbackBalancesKeepsWrites(committed, writes) ==
    [a \in Accounts |-> IF writes[a].exists THEN writes[a] ELSE committed[a]]

RollbackBalances(committed, writes) ==
    committed

\* ----- the handlers --------------------------------------------------------
Set(t, fields) == tx' = [tx EXCEPT ![t] = fields @@ @]

\* the account whose row the pending statement of t touches
Target(t) == IF tx[t].pc \in {"selectTo", "insertTo", "credit"}
             THEN tx[t].toAccountId ELSE tx[t].accountId

\* throw inside the try block: control goes to the catch clause
Throw(t, message) ==
    Set(t, [pc |-> "rollback", error |-> message, failedAt |-> tx[t].pc])

\* a new call marks itself and every call in flight as overlapping
Enter(t, fields) ==
    /\ \A u \in DOMAIN tx : u < t => tx[u].pc # "idle"
    /\ LET others == \E u \in DOMAIN tx : u # t /\ InFlight(u)
       IN tx' = [u \in DOMAIN tx |->
                   IF u = t THEN fields @@ [solo |-> ~others, pre |-> balances] @@ tx[t]
                   ELSE IF InFlight(u) THEN [solo |-> FALSE] @@ tx[u]
                   ELSE tx[u]]

\* updateBalance: connect, BEGIN, new Decimal(amount), isZero check
UpdateBalance(t, accountId, operationType, amount, reference) ==
    /\ tx[t].pc = "idle"
    /\ Enter(t, [kind |-> "update", accountId |-> accountId, toAccountId |-> accountId,
                 operationType |-> operationType, amount |-> amount,
                 reference |-> reference] @@
                (IF amount = 0
                 THEN [pc |-> "rollback", error |-> "Amount cannot be zero",
                       failedAt |-> "begin"]
                 ELSE [pc |-> "select"]))
    /\ UNCHANGED <<balances, operations, rowCount, readSide>>

\* transferBalance: connect, BEGIN, new Decimal(amount), lte(0) check
TransferBalance(t, fromAccountId, toAccountId, amount, reference) ==
    /\ tx[t].pc = "idle"
    /\ Enter(t, [kind |-> "transfer", accountId |-> fromAccountId,
                 toAccountId |-> toAccountId,
                 operationType |-> "transfer", amount |-> amount,
                 reference |-> reference] @@
                (IF amount <= 0
                 THEN [pc |-> "rollback", error |-> "Transfer amount must be positive",
                       failedAt |-> "begin"]
                 ELSE [pc |-> "select"]))
    /\ UNCHANGED <<balances, operations, rowCount, readSide>>

\* the synchronous code that follows getOrCreateBalance returning `row`:
\* validateBalanceOperation in updateBalance, the availableAmount.lt(amount)
\* check in transferBalance once both balances are read
AfterGetOrCreate(t, row) ==
    IF tx[t].kind = "update"
    THEN LET verdict == ValidateBalanceOperation(row, tx[t].operationType, tx[t].amount)
         IN IF verdict = "ok"
            THEN [pc |-> "createOp", balance |-> row]
            ELSE [pc |-> "rollback", balance |-> row, error |-> verdict,
                  failedAt |-> "validate"]
    ELSE IF tx[t].pc \in {"select", "insert"}
    THEN [pc |-> "selectTo", balance |-> row]
    ELSE IF tx[t].balance.available < tx[t].amount
    THEN [pc |-> "rollback", toBalance |-> row,
          error |-> "Insufficient balance for transfer", failedAt |-> "validate"]
    ELSE [pc |-> "createOp", toBalance |-> row]

\* getOrCreateBalance, the SELECT
SelectBalance(t) ==
    /\ tx[t].pc \in {"select", "selectTo"}
    /\ LET row == View(t, Target(t))
       IN IF row.exists
          THEN Set(t, AfterGetOrCreate(t, row))
          ELSE Set(t, [pc |-> IF tx[t].pc = "select" THEN "insert" ELSE "insertTo"])
    /\ UNCHANGED <<balances, operations, rowCount, readSide>>

KeyNeverTaken(a) == FALSE

\* UNIQUE(account_id, currency): a committed row already holds the key
KeyTaken(a) ==
    balances[a].exists

\* getOrCreateBalance, the INSERT: UNIQUE(account_id, currency) makes it wait
\* for a transaction holding the key and fail when the row is committed
InsertBalance(t) ==
    /\ tx[t].pc \in {"insert", "insertTo"}
    /\ ~LockedByOther(t, Target(t))
    /\ IF KeyTaken(Target(t))
       THEN Throw(t, "duplicate key value violates unique constraint")
       ELSE Set(t, AfterGetOrCreate(t, DefaultRow) @@
                   [writes |-> [tx[t].writes EXCEPT ![Target(t)] = DefaultRow],
                    inserted |-> tx[t].inserted \cup {Target(t)}])
    /\ UNCHANGED <<balances, operations, rowCount, readSide>>

\* createBalanceOperation / createTransferOperation: the row starts pending
CreateOperation(t) ==
    /\ tx[t].pc = "createOp"
    /\ Set(t, [pc |-> "apply", opStatus |-> "pending"])
    /\ UNCHANGED <<balances, operations, rowCount, readSide>>

\* applyBalanceOperation: the UPDATE waits for the row lock, then writes the
\* values computed from the balance object it was handed; RETURNING * gives
\* the written row back.  In transferBalance this is the debit leg.
ApplyBalanceOperation(t) ==
    /\ tx[t].pc = "apply"
    /\ ~LockedByOther(t, tx[t].accountId)
    /\ LET a == tx[t].accountId
           type == IF tx[t].kind = "transfer" THEN "debit" ELSE tx[t].operationType
           new == NewBalance(tx[t].balance, type, tx[t].amount)
       IN IF ~View(t, a).exists
          THEN Throw(t, "Cannot read properties of undefined")
          ELSE Set(t, [pc |-> IF tx[t].kind = "transfer" THEN "credit" ELSE "complete",
                       writes |-> [tx[t].writes EXCEPT ![a] = new],
                       result |-> new])
    /\ UNCHANGED <<balances, operations, rowCount, readSide>>

CreditDestinationFromSource(t) ==
    /\ tx[t].pc = "credit"
    /\ ~LockedByOther(t, tx[t].toAccountId)
    /\ LET a == tx[t].toAccountId
           new == NewBalance(tx[t].balance, "credit", tx[t].amount)
       IN IF ~View(t, a).exists
          THEN Throw(t, "Cannot read properties of undefined")
          ELSE Set(t, [pc |-> "complete",
                       writes |-> [tx[t].writes EXCEPT ![a] = new],
                       toResult |-> new])
    /\ UNCHANGED <<balances, operations, rowCount, readSide>>

\* transferBalance, the credit leg: applyBalanceOperation on toBalance
CreditDestination(t) ==
    /\ tx[t].pc = "credit"
    /\ ~LockedByOther(t, tx[t].toAccountId)
    /\ LET a == tx[t].toAccountId
           new == NewBalance(tx[t].toBalance, "credit", tx[t].amount)
       IN IF ~View(t, a).exists
          THEN Throw(t, "Cannot read properties of undefined")
          ELSE Set(t, [pc |-> "complete",
                       writes |-> [tx[t].writes EXCEPT ![a] = new],
                       toResult |-> new])
    /\ UNCHANGED <<balances, operations, rowCount, readSide>>

CompleteBalanceOperationNoRow(t) ==
    /\ tx[t].pc = "complete"
    /\ Set(t, [pc |-> "commit"])
    /\ UNCHANGED <<balances, operations, rowCount, readSide>>

\* completeBalanceOperation
CompleteBalanceOperation(t) ==
    /\ tx[t].pc = "complete"
    /\ Set(t, [pc |-> "commit", opStatus |-> "completed"])
    /\ UNCHANGED <<balances, operations, rowCount, readSide>>

\* the balance_operations row the transaction wrote
OperationRow(t) ==
    [id |-> t, accountId |-> tx[t].accountId, operationType |-> tx[t].operationType,
     amount |-> tx[t].amount, status |-> tx[t].opStatus,
     reference |-> tx[t].reference, currency |-> Currency,
     createdAt |-> t,      \* DEFAULT CURRENT_TIMESTAMP: when the transaction began
     toAccountId |-> IF tx[t].kind = "transfer" THEN tx[t].toAccountId ELSE 0,
     transferType |-> IF tx[t].kind = "transfer" THEN "outbound" ELSE "none"]

\* COMMIT, then the return statement
Commit(t) ==
    /\ tx[t].pc = "commit"
    /\ balances' = CommitBalances(balances, tx[t].writes)
    /\ operations' = operations \cup {OperationRow(t)}
    /\ rowCount' = [a \in Accounts |->
                       IF a \in tx[t].inserted THEN rowCount[a] + 1 ELSE rowCount[a]]
    /\ Set(t, [pc |-> "done", writes |-> [a \in Accounts |-> NoRow], inserted |-> {}])
    /\ UNCHANGED readSide

\* COMMIT succeeds, then auditLogger.logUserAction or logger.info throws: both
\* run inside the try block, so the catch clause takes over
LoggingFault(t) ==
    /\ tx[t].pc = "commit"
    /\ balances' = CommitBalances(balances, tx[t].writes)
    /\ operations' = operations \cup {OperationRow(t)}
    /\ rowCount' = [a \in Accounts |->
                       IF a \in tx[t].inserted THEN rowCount[a] + 1 ELSE rowCount[a]]
    /\ Set(t, [pc |-> "rollback", error |-> "logging failed", failedAt |-> "log",
               writes |-> [a \in Accounts |-> NoRow], inserted |-> {}])
    /\ UNCHANGED readSide

\* the catch clause: ROLLBACK, log, rethrow
Rollback(t) ==
    /\ tx[t].pc = "rollback"
    /\ balances' = RollbackBalances(balances, tx[t].writes)
    /\ Set(t, [pc |-> "failed", opStatus |-> "none",
               writes |-> [a \in Accounts |-> NoRow], inserted |-> {}])
    /\ UNCHANGED <<operations, rowCount, readSide>>

\* a statement between BEGIN and COMMIT fails in the store (connection loss,
\* timeout, injected fault): client.query rejects and the catch clause runs
StatementPcs == {"select", "insert", "selectTo", "insertTo", "createOp",
                 "apply", "credit", "complete", "commit"}

StorageFault(t) ==
    /\ tx[t].pc \in StatementPcs
    /\ Throw(t, "storage fault")
    /\ UNCHANGED <<balances, operations, rowCount, readSide>>

\* t waits for a row lock that u holds
WaitsFor(t, u) ==
    /\ u # t /\ InFlight(u)
    /\ tx[t].pc \in {"insert", "insertTo", "apply", "credit"}
    /\ tx[u].writes[Target(t)].exists

\* the store's deadlock detector aborts a statement that waits in a cycle
DeadlockDetected(t) ==
    /\ \E u \in DOMAIN tx : WaitsFor(t, u) /\ WaitsFor(u, t)
    /\ Throw(t, "deadlock detected")
    /\ UNCHANGED <<balances, operations, rowCount, readSide>>

\* the statement of call t that needs a row lock, when t is at one
LockPcs == {"insert", "insertTo", "apply", "credit"}
LockStep(t) == InsertBalance(t) \/ ApplyBalanceOperation(t) \/ CreditDestination(t)

\* ----- specifications -------------------------------------------------------
\* Account 1 has been credited and holds a reservation; account 2 is either
\* unused so far or has been credited once.
InitialBalances ==
    {[a \in Accounts |-> IF a = 1 THEN Row(MaxInitial, 1, MaxInitial + 1) ELSE second] :
        second \in {NoRow, Row(1, 0, 1)}}

NoHistory == [accountId |-> 0, currency |-> "", limit |-> 0, offset |-> 0,
              result |-> <<>>]

\* no bulk request, no dispatched request
NoBulk == [pc |-> "none", operations |-> <<>>, i |-> 1, results |-> <<>>,
           errors |-> <<>>, status |-> 0, successful |-> 0, failed |-> 0]
NoRequest == [method |-> "none", path |-> <<>>, handler |-> "none"]

NoReadSide ==
    /\ snapshots = {}
    /\ snap = <<>>
    /\ history = NoHistory
    /\ bulk = NoBulk
    /\ dispatched = NoRequest

Init ==
    /\ balances \in InitialBalances
    /\ operations = {}
    /\ rowCount = [a \in Accounts |-> IF balances[a].exists THEN 1 ELSE 0]
    /\ tx = [t \in Txns |-> IdleTx]
    /\ NoReadSide

DoUpdateBalance ==
    \E t \in DOMAIN tx, a \in Accounts, ty \in OperationTypes, amt \in Amounts,
       ref \in References :
        UpdateBalance(t, a, ty, amt, ref)
DoTransferBalance ==
    \E t \in DOMAIN tx, a \in Accounts, b \in Accounts, amt \in Amounts,
       ref \in References :
        TransferBalance(t, a, b, amt, ref)
DoSelectBalance == \E t \in DOMAIN tx : SelectBalance(t)
DoInsertBalance == \E t \in DOMAIN tx : InsertBalance(t)
DoCreateOperation == \E t \in DOMAIN tx : CreateOperation(t)
DoApplyBalanceOperation == \E t \in DOMAIN tx : ApplyBalanceOperation(t)
DoCreditDestination == \E t \in DOMAIN tx : CreditDestination(t)
DoCompleteBalanceOperation == \E t \in DOMAIN tx : CompleteBalanceOperation(t)
DoCommit == \E t \in DOMAIN tx : Commit(t)
DoRollback == \E t \in DOMAIN tx : Rollback(t)
DoStorageFault == \E t \in DOMAIN tx : StorageFault(t)
DoDeadlockDetected == \E t \in DOMAIN tx : DeadlockDetected(t)

Next ==
    \/ DoUpdateBalance
    \/ DoTransferBalance
    \/ DoSelectBalance
    \/ DoInsertBalance
    \/ DoCreateOperation
    \/ DoApplyBalanceOperation
    \/ DoCreditDestination
    \/ DoCompleteBalanceOperation
    \/ DoCommit
    \/ DoRollback
    \/ DoStorageFault
    \/ DoDeadlockDetected

Spec == Init /\ [][Next]_vars

\* N concurrent debit(amount = 1) calls against one balance with available = N
InitDebits ==
    /\ balances = [a \in Accounts |-> IF a = 1 THEN Row(DebitN, 0, DebitN) ELSE NoRow]
    /\ operations = {}
    /\ rowCount = [a \in Accounts |-> IF balances[a].exists THEN 1 ELSE 0]
    /\ tx = [t \in DebitTxns |-> IdleTx]
    /\ NoReadSide

DoDebitOne == \E t \in DOMAIN tx : UpdateBalance(t, 1, "debit", 1, "ref-1")

NextDebits ==
    \/ DoDebitOne
    \/ DoSelectBalance
    \/ DoCreateOperation
    \/ DoApplyBalanceOperation
    \/ DoCompleteBalanceOperation
    \/ DoCommit

SpecDebits == InitDebits /\ [][NextDebits]_vars

\* requests of amount 1 against account 1, issued under one of two references
DoRetryUpdate ==
    \E t \in DOMAIN tx, ty \in OperationTypes, ref \in RetryReferences :
        UpdateBalance(t, 1, ty, 1, ref)

NextRetry ==
    \/ DoRetryUpdate
    \/ DoSelectBalance
    \/ DoCreateOperation
    \/ DoApplyBalanceOperation
    \/ DoCompleteBalanceOperation
    \/ DoCommit
    \/ DoRollback

SpecRetry == Init /\ [][NextRetry]_vars

\* no call is in flight
Quiescent == \A u \in DOMAIN tx : ~InFlight(u)

\* two concurrent debits of the whole available balance
InitTwoDebits ==
    /\ balances \in {[a \in Accounts |-> IF a = 1 THEN Row(x, 0, x) ELSE NoRow] :
                        x \in 1..MaxDebitAll}
    /\ operations = {}
    /\ rowCount = [a \in Accounts |-> IF balances[a].exists THEN 1 ELSE 0]
    /\ tx = [t \in Txns |-> IdleTx]
    /\ NoReadSide

\* the amount of both debits: the available balance before the first of them
DebitAllAmount == IF tx[1].pc = "idle" THEN balances[1].available ELSE tx[1].amount

DoDebitAll == \E t \in DOMAIN tx : UpdateBalance(t, 1, "debit", DebitAllAmount, "ref-1")

NextTwoDebits ==
    \/ DoDebitAll
    \/ DoSelectBalance
    \/ DoCreateOperation
    \/ DoApplyBalanceOperation
    \/ DoCompleteBalanceOperation
    \/ DoCommit
    \/ DoRollback

SpecTwoDebits == InitTwoDebits /\ [][NextTwoDebits]_vars

\* transfers only, of positive amounts, between any two accounts
DoTransferPositive ==
    \E t \in DOMAIN tx, a \in Accounts, b \in Accounts, amt \in 1..MaxAmount :
        TransferBalance(t, a, b, amt, "ref-1")

NextTransfers ==
    \/ DoTransferPositive
    \/ DoSelectBalance
    \/ DoInsertBalance
    \/ DoCreateOperation
    \/ DoApplyBalanceOperation
    \/ DoCreditDestination
    \/ DoCompleteBalanceOperation
    \/ DoCommit
    \/ DoRollback
    \/ DoDeadlockDetected

SpecTransfers == Init /\ [][NextTransfers]_vars

\* calls of positive amounts issued one after the other on empty tables
InitSequential ==
    /\ balances = [a \in Accounts |-> NoRow]
    /\ operations = {}
    /\ rowCount = [a \in Accounts |-> 0]
    /\ tx = [t \in HistoryTxns |-> IdleTx]
    /\ NoReadSide

DoSequentialUpdate ==
    /\ Quiescent
    /\ \E t \in DOMAIN tx, a \in Accounts, ty \in OperationTypes, amt \in 1..MaxAmount :
           UpdateBalance(t, a, ty, amt, "ref-1")
DoSequentialTransfer ==
    /\ Quiescent
    /\ \E t \in DOMAIN tx, a \in Accounts, b \in Accounts, amt \in 1..MaxAmount :
           TransferBalance(t, a, b, amt, "ref-1")

NextSequential ==
    \/ DoSequentialUpdate
    \/ DoSequentialTransfer
    \/ DoSelectBalance
    \/ DoInsertBalance
    \/ DoCreateOperation
    \/ DoApplyBalanceOperation
    \/ DoCreditDestination
    \/ DoCompleteBalanceOperation
    \/ DoCommit
    \/ DoRollback

SpecSequential == InitSequential /\ [][NextSequential]_vars

\* calls whose logging after COMMIT may throw
DoLoggedUpdate ==
    \E t \in DOMAIN tx, ty \in OperationTypes : UpdateBalance(t, 1, ty, 1, "ref-1")
DoLoggedTransfer == \E t \in DOMAIN tx : TransferBalance(t, 1, 2, 1, "ref-1")
DoLoggingFault == \E t \in DOMAIN tx : LoggingFault(t)

NextLogging ==
    \/ DoLoggedUpdate
    \/ DoLoggedTransfer
    \/ DoSelectBalance
    \/ DoInsertBalance
    \/ DoCreateOperation
    \/ DoApplyBalanceOperation
    \/ DoCreditDestination
    \/ DoCompleteBalanceOperation
    \/ DoCommit
    \/ DoLoggingFault
    \/ DoRollback

SpecLogging == Init /\ [][NextLogging]_vars

\* ----- createDailySnapshot ---------------------------------------------------
IdleSnap == [pc |-> "idle", accountId |-> 1, date |-> 0, read |-> NoRow,
             written |-> FALSE, error |-> "none"]

SnapInFlight(c) == snap[c].pc \notin {"idle", "done", "failed"}

SetSnap(c, fields) == snap' = [snap EXCEPT ![c] = fields @@ @]

\* date.toISOString().split('T')[0]: the UTC day of the instant
SnapshotDate(instant) == instant.day

\* createDailySnapshot: connect, BEGIN
CreateDailySnapshot(c, accountId, instant) ==
    /\ snap[c].pc = "idle"
    /\ \A b \in DOMAIN snap : b < c => snap[b].pc # "idle"
    /\ SetSnap(c, [pc |-> "read", accountId |-> accountId,
                   date |-> SnapshotDate(instant)])
    /\ UNCHANGED <<balances, operations, rowCount, tx, snapshots, history, bulk, dispatched>>

\* getAllBalances(accountId) on the pool: the committed rows of the account
\* (at most one, there being one currency); the loop body runs once per row
ReadAllBalances(c) ==
    /\ snap[c].pc = "read"
    /\ SetSnap(c, [read |-> balances[snap[c].accountId],
                   pc |-> IF balances[snap[c].accountId].exists
                          THEN "upsert" ELSE "commit"])
    /\ UNCHANGED <<balances, operations, rowCount, tx, snapshots, history, bulk, dispatched>>

\* the snapshot row an in-flight call has written for (accountId, date)
SnapshotKeyHeld(c, accountId, date) ==
    \E b \in DOMAIN snap :
        /\ b # c /\ SnapInFlight(b) /\ snap[b].written
        /\ snap[b].accountId = accountId /\ snap[b].date = date

\* INSERT ... ON CONFLICT (account_id, currency, snapshot_date) DO UPDATE: waits
\* for a transaction that holds the key
UpsertSnapshot(c) ==
    /\ snap[c].pc = "upsert"
    /\ ~SnapshotKeyHeld(c, snap[c].accountId, snap[c].date)
    /\ SetSnap(c, [pc |-> "commit", written |-> TRUE])
    /\ UNCHANGED <<balances, operations, rowCount, tx, snapshots, history, bulk, dispatched>>

SnapshotRow(c) ==
    [accountId |-> snap[c].accountId, currency |-> Currency, date |-> snap[c].date,
     available |-> snap[c].read.available, reserved |-> snap[c].read.reserved,
     total |-> snap[c].read.total]

SameSnapshotKey(r, q) ==
    r.accountId = q.accountId /\ r.currency = q.currency /\ r.date = q.date

UpsertedInsertOnly(table, row) == table \cup {row}

\* the table after the upsert of `row` is committed: the row replaces the one
\* with its key
Upserted(table, row) ==
    {r \in table : ~SameSnapshotKey(r, row)} \cup {row}

CommitSnapshot(c) ==
    /\ snap[c].pc = "commit"
    /\ snapshots' = IF snap[c].written THEN Upserted(snapshots, SnapshotRow(c))
                    ELSE snapshots
    /\ SetSnap(c, [pc |-> "done", written |-> FALSE])
    /\ UNCHANGED <<balances, operations, rowCount, tx, history, bulk, dispatched>>

\* a statement of the snapshot transaction fails
SnapshotFault(c) ==
    /\ snap[c].pc \in {"upsert", "commit"}
    /\ SetSnap(c, [pc |-> "rollback", error |-> "storage fault"])
    /\ UNCHANGED <<balances, operations, rowCount, tx, snapshots, history, bulk, dispatched>>

\* the catch clause: ROLLBACK, log, rethrow
RollbackSnapshot(c) ==
    /\ snap[c].pc = "rollback"
    /\ SetSnap(c, [pc |-> "failed", written |-> FALSE])
    /\ UNCHANGED <<balances, operations, rowCount, tx, snapshots, history, bulk, dispatched>>

\* snapshots of both accounts taken while account 1 is credited and debited
InitSnapshot ==
    /\ balances \in InitialBalances
    /\ operations = {}
    /\ rowCount = [a \in Accounts |-> IF balances[a].exists THEN 1 ELSE 0]
    /\ tx = [t \in Txns |-> IdleTx]
    /\ snapshots = {}
    /\ snap = [c \in SnapshotCalls |-> IdleSnap]
    /\ history = NoHistory
    /\ bulk = NoBulk
    /\ dispatched = NoRequest

DoSnapshotUpdate ==
    \E t \in DOMAIN tx, ty \in {"credit", "debit"} : UpdateBalance(t, 1, ty, 1, "ref-1")
DoCreateDailySnapshot ==
    \E c \in DOMAIN snap, a \in Accounts, i \in Instants : CreateDailySnapshot(c, a, i)
DoReadAllBalances == \E c \in DOMAIN snap : ReadAllBalances(c)
DoUpsertSnapshot == \E c \in DOMAIN snap : UpsertSnapshot(c)
DoCommitSnapshot == \E c \in DOMAIN snap : CommitSnapshot(c)
DoSnapshotFault == \E c \in DOMAIN snap : SnapshotFault(c)
DoRollbackSnapshot == \E c \in DOMAIN snap : RollbackSnapshot(c)

NextSnapshot ==
    \/ DoSnapshotUpdate
    \/ DoSelectBalance
    \/ DoCreateOperation
    \/ DoApplyBalanceOperation
    \/ DoCompleteBalanceOperation
    \/ DoCommit
    \/ DoCreateDailySnapshot
    \/ DoReadAllBalances
    \/ DoUpsertSnapshot
    \/ DoCommitSnapshot
    \/ DoSnapshotFault
    \/ DoRollbackSnapshot

SpecSnapshot == InitSnapshot /\ [][NextSnapshot]_vars

\* ----- getBalanceHistory ------------------------------------------------------
\* WHERE account_id = $1 [AND currency = $2]; `if (currency)` skips the second
\* condition for an absent or empty currency
MatchingOperationsAnyAccount(ops, accountId, currency) ==
    {o \in ops : currency = "" \/ o.currency = currency}

MatchingOperations(ops, accountId, currency) ==
    {o \in ops : o.accountId = accountId /\ (currency = "" \/ o.currency = currency)}

RECURSIVE NewestFirstAscending(_)
NewestFirstAscending(ops) ==
    IF ops = {} THEN <<>>
    ELSE LET o == CHOOSE x \in ops : \A y \in ops : y.createdAt >= x.createdAt
         IN <<o>> \o NewestFirstAscending(ops \ {o})

\* ORDER BY created_at DESC
RECURSIVE NewestFirst(_)
NewestFirst(ops) ==
    IF ops = {} THEN <<>>
    ELSE LET o == CHOOSE x \in ops : \A y \in ops : y.createdAt <= x.createdAt
         IN <<o>> \o NewestFirst(ops \ {o})

\* LIMIT $n OFFSET $m
Page(rows, limit, offset) ==
    SubSeq(rows, offset + 1, IF offset + limit < Len(rows) THEN offset + limit ELSE Len(rows))

\* one query is followed in each behaviour
GetBalanceHistory(accountId, currency, limit, offset) ==
    /\ history = NoHistory
    /\ history' = [accountId |-> accountId, currency |-> currency, limit |-> limit,
                   offset |-> offset,
                   result |-> Page(NewestFirst(MatchingOperations(operations, accountId,
                                                                  currency)),
                                   limit, offset)]
    /\ UNCHANGED <<balances, operations, rowCount, tx, snapshots, snap, bulk, dispatched>>

\* credits to either account, then history queries
InitHistory ==
    /\ balances \in InitialBalances
    /\ operations = {}
    /\ rowCount = [a \in Accounts |-> IF balances[a].exists THEN 1 ELSE 0]
    /\ tx = [t \in HistoryTxns |-> IdleTx]
    /\ NoReadSide

DoHistoryUpdate ==
    \E t \in DOMAIN tx, a \in Accounts : UpdateBalance(t, a, "credit", 1, "ref-1")
DoGetBalanceHistory ==
    \E a \in Accounts, cur \in CurrencyFilters, limit \in 0..MaxLimit,
       offset \in 0..MaxOffset :
        GetBalanceHistory(a, cur, limit, offset)

NextHistory ==
    \/ DoHistoryUpdate
    \/ DoSelectBalance
    \/ DoInsertBalance
    \/ DoCreateOperation
    \/ DoApplyBalanceOperation
    \/ DoCompleteBalanceOperation
    \/ DoCommit
    \/ DoRollback
    \/ DoGetBalanceHistory

SpecHistory == InitHistory /\ [][NextHistory]_vars

\* ----- the balance router: GET /:accountId/history ----------------------------
DigitValue == [c \in {"0", "1", "2", "3", "4", "5", "6", "7", "8", "9"} |->
                 CASE c = "0" -> 0 [] c = "1" -> 1 [] c = "2" -> 2 [] c = "3" -> 3
                   [] c = "4" -> 4 [] c = "5" -> 5 [] c = "6" -> 6 [] c = "7" -> 7
                   [] c = "8" -> 8 [] c = "9" -> 9]

RECURSIVE ParseDigits(_, _)
ParseDigits(s, acc) ==
    IF s = <<>> \/ Head(s) \notin DOMAIN DigitValue THEN acc
    ELSE ParseDigits(Tail(s), 10 * acc + DigitValue[Head(s)])

\* parseInt: the number written by the leading digits, NaN when there is none
ParseInt(s) ==
    IF s = <<>> \/ Head(s) \notin DOMAIN DigitValue
    THEN [nan |-> TRUE, value |-> 0]
    ELSE [nan |-> FALSE, value |-> ParseDigits(s, 0)]

\* `parsed || fallback`: NaN and 0 are falsy
OrDefault(parsed, fallback) ==
    IF parsed.nan \/ parsed.value = 0 THEN fallback ELSE parsed.value

DefaultLimit == 50

\* the handler of GET /:accountId/history
HistoryRoute(accountId, query) ==
    LET currency == query.currency
        limit == OrDefault(ParseInt(query.limit), DefaultLimit)
        offset == OrDefault(ParseInt(query.offset), 0)
    IN GetBalanceHistory(accountId, currency, limit, offset)

\* credits of 1 to account 1, one after the other, then one history request;
\* the request reads committed rows only, so it is issued between two calls
InitPage ==
    /\ balances = [a \in Accounts |-> IF a = 1 THEN Row(MaxInitial, 1, MaxInitial + 1)
                                     ELSE NoRow]
    /\ operations = {}
    /\ rowCount = [a \in Accounts |-> IF balances[a].exists THEN 1 ELSE 0]
    /\ tx = [t \in PageTxns |-> IdleTx]
    /\ NoReadSide

DoPageCredit ==
    /\ Quiescent /\ history = NoHistory
    /\ \E t \in DOMAIN tx : UpdateBalance(t, 1, "credit", 1, "ref-1")
DoHistoryRoute ==
    /\ Quiescent
    /\ \E a \in Accounts, cur \in {"", "USD"}, limit \in LimitStrings,
          offset \in OffsetStrings :
           HistoryRoute(a, [currency |-> cur, limit |-> limit, offset |-> offset])

NextPage ==
    \/ DoPageCredit
    \/ DoSelectBalance
    \/ DoCreateOperation
    \/ DoApplyBalanceOperation
    \/ DoCompleteBalanceOperation
    \/ DoCommit
    \/ DoHistoryRoute

SpecPage == InitPage /\ [][NextPage]_vars

\* ----- the balance router: POST /bulk-update ----------------------------------
BulkLimit == 100
BulkTxns == 1..BulkLimit

\* the entries of a bulk request: credits and debits on account 1, of amount
\* zero or MaxAmount
BulkOperations ==
    [accountId : {1}, operationType : {"credit", "debit"}, amount : {0, MaxAmount},
     reference : {"ref-1"}]

\* the arrays submitted: every array of 0..MaxBulk entries, and arrays of
\* BulkLimit and BulkLimit + 1 credits
BulkArrays ==
    UNION {[1..n -> BulkOperations] : n \in 0..MaxBulk}
      \cup {[i \in 1..n |-> [accountId |-> 1, operationType |-> "credit",
                              amount |-> MaxAmount, reference |-> "ref-1"]] :
                n \in {BulkLimit, BulkLimit + 1}}

\* the handler up to its loop: the two checks on the array
BulkUpdate(ops) ==
    /\ bulk.pc = "none"
    /\ bulk' = IF Len(ops) = 0 \/ Len(ops) > BulkLimit
               THEN [NoBulk EXCEPT !.pc = "responded", !.operations = ops, !.status = 400]
               ELSE [NoBulk EXCEPT !.pc = "loop", !.operations = ops]
    /\ UNCHANGED <<balances, operations, rowCount, tx, snapshots, snap, history, dispatched>>

\* the loop body: await balanceService.updateBalance(operations[i]); the i-th
\* entry is served by the i-th call of the behaviour
BulkCall ==
    /\ bulk.pc = "loop" /\ bulk.i <= Len(bulk.operations)
    /\ LET op == bulk.operations[bulk.i]
       IN UpdateBalance(bulk.i, op.accountId, op.operationType, op.amount, op.reference)

BulkCollectStopsAtError ==
    /\ bulk.pc = "loop" /\ bulk.i <= Len(bulk.operations)
    /\ Finished(bulk.i)
    /\ LET call == tx[bulk.i]
           results == IF call.pc = "done"
                      THEN Append(bulk.results, [index |-> bulk.i - 1, success |-> TRUE,
                                                 data |-> call.result])
                      ELSE bulk.results
           errors == IF call.pc = "done" THEN bulk.errors
                     ELSE Append(bulk.errors, [index |-> bulk.i - 1, error |-> call.error,
                                               operation |-> bulk.operations[bulk.i]])
           last == bulk.i = Len(bulk.operations) \/ call.pc # "done"
       IN bulk' = [bulk EXCEPT !.results = results, !.errors = errors, !.i = bulk.i + 1,
                               !.pc = IF last THEN "responded" ELSE "loop",
                               !.status = IF last THEN 200 ELSE 0,
                               !.successful = IF last THEN Len(results) ELSE 0,
                               !.failed = IF last THEN Len(errors) ELSE 0]
    /\ UNCHANGED <<balances, operations, rowCount, tx, snapshots, snap, history, dispatched>>

\* the call returned or threw: results.push or errors.push, i++; after the last
\* entry res.json reports the two counts
BulkCollect ==
    /\ bulk.pc = "loop" /\ bulk.i <= Len(bulk.operations)
    /\ Finished(bulk.i)
    /\ LET call == tx[bulk.i]
           results == IF call.pc = "done"
                      THEN Append(bulk.results, [index |-> bulk.i - 1, success |-> TRUE,
                                                 data |-> call.result])
                      ELSE bulk.results
           errors == IF call.pc = "done" THEN bulk.errors
                     ELSE Append(bulk.errors, [index |-> bulk.i - 1, error |-> call.error,
                                               operation |-> bulk.operations[bulk.i]])
           last == bulk.i = Len(bulk.operations)
       IN bulk' = [bulk EXCEPT !.results = results, !.errors = errors, !.i = bulk.i + 1,
                               !.pc = IF last THEN "responded" ELSE "loop",
                               !.status = IF last THEN 200 ELSE 0,
                               !.successful = IF last THEN Len(results) ELSE 0,
                               !.failed = IF last THEN Len(errors) ELSE 0]
    /\ UNCHANGED <<balances, operations, rowCount, tx, snapshots, snap, history, dispatched>>

InitBulk ==
    /\ balances = [a \in Accounts |-> IF a = 1 THEN Row(MaxInitial, 1, MaxInitial + 1)
                                     ELSE NoRow]
    /\ operations = {}
    /\ rowCount = [a \in Accounts |-> IF balances[a].exists THEN 1 ELSE 0]
    /\ tx = [t \in BulkTxns |-> IdleTx]
    /\ NoReadSide

DoBulkUpdate == \E ops \in BulkArrays : BulkUpdate(ops)

NextBulk ==
    \/ DoBulkUpdate
    \/ BulkCall
    \/ BulkCollect
    \/ DoSelectBalance
    \/ DoCreateOperation
    \/ DoApplyBalanceOperation
    \/ DoCompleteBalanceOperation
    \/ DoCommit
    \/ DoRollback

SpecBulk == InitBulk /\ [][NextBulk]_vars

\* ----- the balance router: dispatch ---------------------------------------------
Param(name) == [param |-> TRUE, name |-> name]
Literal(name) == [param |-> FALSE, name |-> name]

\* the routes in the order balanceRoutes registers them
Routes ==
    << [method |-> "GET", pattern |-> <<Param("accountId"), Param("currency")>>,
        handler |-> "getBalance"],
       [method |-> "GET", pattern |-> <<Param("accountId")>>, handler |-> "getAllBalances"],
       [method |-> "POST", pattern |-> <<Literal("update")>>, handler |-> "updateBalance"],
       [method |-> "POST", pattern |-> <<Literal("transfer")>>,
        handler |-> "transferBalance"],
       [method |-> "POST", pattern |-> <<Literal("reserve")>>, handler |-> "reserveBalance"],
       [method |-> "POST", pattern |-> <<Literal("release")>>,
        handler |-> "releaseReservedBalance"],
       [method |-> "GET", pattern |-> <<Param("accountId"), Literal("history")>>,
        handler |-> "getBalanceHistory"],
       [method |-> "POST", pattern |-> <<Param("accountId"), Literal("snapshot")>>,
        handler |-> "createDailySnapshot"],
       [method |-> "POST", pattern |-> <<Literal("bulk-update")>>,
        handler |-> "bulkUpdate"] >>

Methods == {"GET", "POST"}
Segments == {"1", "2", "USD", "history", "update", "transfer", "reserve", "release",
             "snapshot", "bulk-update"}
Paths == [1..1 -> Segments] \cup [1..2 -> Segments]

\* a path matches a pattern segment by segment; a parameter takes any segment
Matches(pattern, path) ==
    /\ Len(pattern) = Len(path)
    /\ \A i \in 1..Len(pattern) : pattern[i].param \/ pattern[i].name = path[i]

\* the router runs the first registered route that matches; no handler of
\* balanceRoutes calls next(), so no later route is tried
Dispatch(method, path) ==
    LET hits == {i \in 1..Len(Routes) :
                    Routes[i].method = method /\ Matches(Routes[i].pattern, path)}
    IN IF hits = {} THEN "notFound"
       ELSE Routes[CHOOSE i \in hits : \A j \in hits : i <= j].handler

Request(method, path) ==
    /\ dispatched' = [method |-> method, path |-> path, handler |-> Dispatch(method, path)]
    /\ UNCHANGED <<balances, operations, rowCount, tx, snapshots, snap, history, bulk>>

DoRequest == \E method \in Methods, path \in Paths : Request(method, path)

NextRouter == DoRequest

SpecRouter == Init /\ [][NextRouter]_vars

\* ----- the error taxonomy of the specification ------------------------------
InvalidAmountErrors == {"Amount cannot be zero", "Transfer amount must be positive"}
InsufficientFundsErrors == {"Insufficient available balance",
                            "Insufficient balance to reserve",
                            "Insufficient balance for transfer"}
InsufficientReserveErrors == {"Insufficient reserved balance"}
RejectionErrors ==
    InvalidAmountErrors \cup InsufficientFundsErrors \cup InsufficientReserveErrors

\* the step in which call t returns or rethrows
Returns(t) == tx[t].pc = "commit" /\ tx'[t].pc = "done"
Rethrows(t) == tx[t].pc = "rollback" /\ tx'[t].pc = "failed"
\* a balance that does not exist yet counts as all zeros
OrZero(row) == IF row.exists THEN row ELSE Row(0, 0, 0)
\* the sum of totalBalance over the rows of the balances table
RECURSIVE SumOfTotals(_, _)
SumOfTotals(table, accounts) ==
    IF accounts = {} THEN 0
    ELSE LET a == CHOOSE x \in accounts : TRUE
         IN OrZero(table[a]).total + SumOfTotals(table, accounts \ {a})
\* the sum of the amounts of a set of operation rows
RECURSIVE SumOfAmounts(_)
SumOfAmounts(ops) ==
    IF ops = {} THEN 0
    ELSE LET o == CHOOSE x \in ops : TRUE
         IN o.amount + SumOfAmounts(ops \ {o})

\* ----- claims ---------------------------------------------------------------

\* C1: in every committed state every Balance row has availableBalance >= 0
\* and reservedBalance >= 0.
NonNegativeBalances ==
    \A a \in Accounts :
        balances[a].exists => balances[a].available >= 0 /\ balances[a].reserved >= 0

\* C2: in every committed state every Balance row has
\* totalBalance = availableBalance + reservedBalance.
TotalIsAvailablePlusReserved ==
    \A a \in Accounts :
        balances[a].exists =>
            balances[a].total = balances[a].available + balances[a].reserved

\* a reserve and a transfer have both committed
TotalWitness ==
    /\ \E t \in DOMAIN tx : tx[t].pc = "done" /\ tx[t].operationType = "reserve"
    /\ \E t \in DOMAIN tx : tx[t].pc = "done" /\ tx[t].kind = "transfer"

\* C3: once N concurrent debit(1) calls against available = N have all ended,
\* all of them succeeded and availableBalance is 0.
AllDebitsApplied ==
    (\A t \in DOMAIN tx : Finished(t)) =>
        /\ \A t \in DOMAIN tx : tx[t].pc = "done"
        /\ balances[1].available = 0

TransferMovesAmount ==
    [][\A t \in DOMAIN tx :
          LET from == tx[t].accountId
              to == tx[t].toAccountId
              amt == tx[t].amount
              src == OrZero(tx[t].pre[from])
              dst == OrZero(tx[t].pre[to])
          IN (/\ tx[t].kind = "transfer" /\ tx[t].solo
              /\ from # to /\ amt > 0 /\ src.available >= amt
              /\ tx[t].error # "storage fault"
              /\ (Returns(t) \/ Rethrows(t))) =>
                 /\ Returns(t)
                 /\ balances'[from].exists /\ balances'[to].exists
                 /\ balances'[from].available = src.available - amt
                 /\ balances'[from].reserved = src.reserved
                 /\ balances'[to].available = dst.available + amt
                 /\ balances'[to].reserved = dst.reserved
                 /\ tx'[t].result = balances'[from]
                 /\ tx'[t].toResult = balances'[to]
                 /\ \E o \in operations' : o.id = t /\ o.status = "completed"]_vars

\* such a transfer has returned, its destination being a balance that did not
\* exist before
TransferWitness ==
    \E t \in DOMAIN tx :
        /\ tx[t].kind = "transfer" /\ tx[t].pc = "done" /\ tx[t].solo
        /\ tx[t].accountId # tx[t].toAccountId
        /\ ~tx[t].pre[tx[t].toAccountId].exists

\* C6: a transferBalance call with fromAccountId = toAccountId is rejected
\* (it never returns successfully).
SelfTransferRejected ==
    \A t \in DOMAIN tx :
        (tx[t].kind = "transfer" /\ tx[t].accountId = tx[t].toAccountId) =>
            tx[t].pc # "done"

\* C7: a call whose amount is zero or negative fails with an invalid-amount
\* error.
NonPositiveAmountRejected ==
    \A t \in DOMAIN tx :
        (tx[t].kind # "none" /\ tx[t].amount <= 0 /\ Finished(t)) =>
            tx[t].pc = "failed" /\ tx[t].error \in InvalidAmountErrors

\* C8: for amount > 0 the validator accepts a credit always, a debit or a
\* reserve exactly when available >= amount, a release exactly when
\* reserved >= amount; a rejected debit or reserve reports insufficient funds
\* and a rejected release insufficient reserve.
ValidatorMatchesRule ==
    \A t \in DOMAIN tx :
        LET b == tx[t].balance
            amt == tx[t].amount
            rejected == tx[t].failedAt = "validate"
        IN (tx[t].kind = "update" /\ amt > 0 /\ b.exists) =>
              CASE tx[t].operationType = "credit" -> ~rejected
                [] tx[t].operationType \in {"debit", "reserve"} ->
                      /\ ~rejected <=> b.available >= amt
                      /\ rejected => tx[t].error \in InsufficientFundsErrors
                [] tx[t].operationType = "release" ->
                      /\ ~rejected <=> b.reserved >= amt
                      /\ rejected => tx[t].error \in InsufficientReserveErrors

\* a debit of exactly the available balance was accepted
ValidatorWitness ==
    \E t \in DOMAIN tx :
        /\ tx[t].kind = "update" /\ tx[t].operationType = "debit"
        /\ tx[t].balance.exists /\ tx[t].amount > 0
        /\ tx[t].balance.available = tx[t].amount
        /\ tx[t].pc = "createOp"

\* the reference result of the four operations
Reference(b, operationType, amt) ==
    CASE operationType = "credit" -> Row(b.available + amt, b.reserved, b.total + amt)
      [] operationType = "debit" -> Row(b.available - amt, b.reserved, b.total - amt)
      [] operationType = "reserve" -> Row(b.available - amt, b.reserved + amt, b.total)
      [] operationType = "release" -> Row(b.available + amt, b.reserved - amt, b.total)

\* C9: an updateBalance call with amount > 0 that returns, overlapped by no
\* other call, returns and persists the reference result computed from the
\* pre-call balance, an absent balance counting as all zeros.
UpdateMatchesReference ==
    [][\A t \in DOMAIN tx :
          LET a == tx[t].accountId
              ref == Reference(OrZero(tx[t].pre[a]), tx[t].operationType, tx[t].amount)
          IN (tx[t].kind = "update" /\ tx[t].solo /\ tx[t].amount > 0 /\ Returns(t)) =>
                 /\ tx'[t].result = ref
                 /\ balances'[a] = ref]_vars

\* a release has returned, and so has an operation on a balance that did not
\* exist before
UpdateWitness ==
    /\ \E t \in DOMAIN tx : /\ tx[t].kind = "update" /\ tx[t].pc = "done" /\ tx[t].solo
                            /\ tx[t].operationType = "release" /\ tx[t].amount > 0
    /\ \E t \in DOMAIN tx : /\ tx[t].kind = "update" /\ tx[t].pc = "done" /\ tx[t].solo
                            /\ tx[t].amount > 0 /\ ~tx[t].pre[tx[t].accountId].exists

\* C10: a call rejected for an invalid amount, insufficient funds or
\* insufficient reserve leaves every committed Balance row as it was.
RejectedCallChangesNothing ==
    [][\A t \in DOMAIN tx :
          (Rethrows(t) /\ tx[t].error \in RejectionErrors) =>
              /\ balances' = balances
              /\ tx[t].solo => balances' = tx[t].pre]_vars

\* a debit was rejected for insufficient funds after its transaction had
\* created the balance row
RejectedWitness ==
    \E t \in DOMAIN tx :
        /\ tx[t].pc = "failed" /\ tx[t].operationType = "debit"
        /\ tx[t].error = "Insufficient available balance"
        /\ ~tx[t].pre[tx[t].accountId].exists
        /\ tx[t].balance = DefaultRow

\* C11: with a storage fault possible at every statement, a step of an
\* updateBalance call either commits the balance update together with the
\* completed operation row, or changes neither table; an operation row of the
\* call is stored exactly when the call returned, and then it is completed.
UpdateIsAllOrNothing ==
    [][\A t \in DOMAIN tx :
          (tx[t].kind = "update" /\ tx'[t] # tx[t]) =>
              /\ Returns(t) =>
                    /\ tx[t].result.exists
                    /\ balances'[tx[t].accountId] = tx[t].result
                    /\ operations' = operations \cup
                          {[OperationRow(t) EXCEPT !.status = "completed"]}
              /\ ~Returns(t) => balances' = balances /\ operations' = operations
              /\ (\E o \in operations' : o.id = t) <=> tx'[t].pc = "done"]_vars

\* a fault hit an updateBalance call at the mark-completed statement, after
\* the balance update was written, and the call has rolled back
AllOrNothingWitness ==
    \E t \in DOMAIN tx :
        /\ tx[t].kind = "update" /\ tx[t].pc = "failed"
        /\ tx[t].error = "storage fault" /\ tx[t].failedAt = "complete"
        /\ tx[t].result.exists

\* C13: two transfers in opposite directions between the same two accounts
\* never wait for each other's row lock.
NoMutualLockWait ==
    ~\E t \in DOMAIN tx, u \in DOMAIN tx :
        /\ tx[t].kind = "transfer" /\ tx[u].kind = "transfer"
        /\ tx[t].accountId = tx[u].toAccountId /\ tx[t].toAccountId = tx[u].accountId
        /\ tx[t].accountId # tx[t].toAccountId
        /\ WaitsFor(t, u) /\ WaitsFor(u, t)

\* C15: a transfer commits only if the committed source balance at its
\* COMMIT has available >= amount.
TransferChecksCurrentBalance ==
    [][\A t \in DOMAIN tx :
          (tx[t].kind = "transfer" /\ Returns(t)) =>
              OrZero(balances[tx[t].accountId]).available >= tx[t].amount]_vars

\* C16: reserve(x) then release(x) on one balance, 0 < x, with no operation
\* in between, returns the row to its values before the reserve; after the
\* reserve available is lower by x, reserved higher by x, total unchanged.
ReserveReleaseRoundTrip ==
    \A t \in DOMAIN tx, u \in DOMAIN tx :
        LET a == tx[t].accountId
            x == tx[t].amount
            before == OrZero(tx[t].pre[a])
        IN (/\ tx[t].kind = "update" /\ tx[t].operationType = "reserve"
            /\ tx[u].kind = "update" /\ tx[u].operationType = "release"
            /\ tx[u].accountId = a /\ tx[u].amount = x /\ x > 0
            /\ tx[t].pc = "done" /\ tx[u].pc = "done"
            /\ tx[t].solo /\ tx[u].solo
            /\ tx[u].pre[a] = tx[t].result) =>
               /\ tx[t].result = Row(before.available - x, before.reserved + x, before.total)
               /\ tx[u].result = before

\* a reserve and the matching release have both returned
RoundTripWitness ==
    \E t \in DOMAIN tx, u \in DOMAIN tx :
        /\ tx[t].kind = "update" /\ tx[t].operationType = "reserve"
        /\ tx[u].kind = "update" /\ tx[u].operationType = "release"
        /\ tx[u].accountId = tx[t].accountId /\ tx[u].amount = tx[t].amount
        /\ tx[t].amount > 0
        /\ tx[t].pc = "done" /\ tx[u].pc = "done" /\ tx[t].solo /\ tx[u].solo
        /\ tx[u].pre[tx[t].accountId] = tx[t].result

\* C18: a transfer that returned has stored two operation rows sharing a
\* correlation key, an outbound one for the source account and an inbound one
\* for the destination account.
TransferWritesTwoLegs ==
    \A t \in DOMAIN tx :
        (tx[t].kind = "transfer" /\ tx[t].pc = "done") =>
            \E out \in operations, inb \in operations :
                /\ out.id = t /\ out.accountId = tx[t].accountId
                /\ out.transferType = "outbound"
                /\ inb.accountId = tx[t].toAccountId
                /\ inb.transferType = "inbound"
                /\ inb.reference = out.reference

\* C19: no committed operation row is pending or cancelled.
NoPendingOperationStored ==
    \A o \in operations : o.status \notin {"pending", "cancelled"}

\* an operation row has been committed and another call has rolled back after
\* inserting its pending row
StoredOperationWitness ==
    /\ \E o \in operations : o.status = "completed"
    /\ \E t \in DOMAIN tx : tx[t].pc = "failed" /\ tx[t].failedAt \in {"apply", "complete"}

\* C12: the same request (account, operation type, amount) submitted twice
\* under one reference, the second after the first returned, is applied once:
\* the second call leaves the balance as the first left it.
RetryAppliesOnce ==
    \A t \in DOMAIN tx, u \in DOMAIN tx :
        (/\ t < u /\ tx[t].kind = "update" /\ tx[u].kind = "update"
         /\ tx[t].accountId = tx[u].accountId
         /\ tx[t].operationType = tx[u].operationType
         /\ tx[t].amount = tx[u].amount
         /\ tx[t].reference = tx[u].reference
         /\ tx[t].pc = "done" /\ tx[t].solo /\ tx[u].solo /\ Finished(u)) =>
            (tx[u].pc = "done" => tx[u].result = tx[t].result)

\* C14: the balances table never holds more than one row per account.
OneRowPerAccount ==
    \A a \in Accounts : rowCount[a] <= 1 /\ (rowCount[a] = 1 <=> balances[a].exists)

\* two calls raced to create the same row: one committed it, the other's
\* INSERT was refused
OneRowWitness ==
    \E t \in DOMAIN tx, u \in DOMAIN tx :
        /\ tx[t].pc = "done" /\ ~tx[t].pre[tx[t].accountId].exists
        /\ tx[u].pc = "failed" /\ tx[u].failedAt \in {"insert", "insertTo"}
        /\ tx[u].error = "duplicate key value violates unique constraint"

\* C17: whenever a createDailySnapshot call commits, however many calls for
\* the same (accountId, date) came before it, the snapshot table holds exactly
\* one row for its (accountId, currency, date), with the balance values that
\* call read (the most recent call being the one that committed last), and
\* never two rows for any key.
SnapshotOverwrites ==
    [][\A c \in DOMAIN snap :
          (snap[c].pc = "commit" /\ snap'[c].pc = "done" /\ snap[c].read.exists) =>
              /\ {r \in snapshots' : r.accountId = snap[c].accountId
                                       /\ r.date = snap[c].date}
                    = {[accountId |-> snap[c].accountId, currency |-> Currency,
                        date |-> snap[c].date,
                        available |-> snap[c].read.available,
                        reserved |-> snap[c].read.reserved,
                        total |-> snap[c].read.total]}
              /\ \A r \in snapshots', q \in snapshots' :
                    SameSnapshotKey(r, q) => r = q]_vars

\* two snapshot calls for one account and day, taken at different times of
\* that day and reading different balances, have both committed
SnapshotWitness ==
    \E c \in DOMAIN snap, b \in DOMAIN snap :
        /\ c # b /\ snap[c].pc = "done" /\ snap[b].pc = "done"
        /\ snap[c].accountId = snap[b].accountId /\ snap[c].date = snap[b].date
        /\ snap[c].read.exists /\ snap[b].read.exists
        /\ snap[c].read # snap[b].read
        /\ Cardinality(snapshots) = 1

\* C20: getBalanceHistory returns operations of the given account (and of the
\* given currency when one is given), newest first, skipping the first
\* `offset` of them and returning at most `limit`.
HistoryIsNewestFirstPage ==
    [][history' # history =>
          LET h == history'
              r == h.result
              match == {o \in operations : o.accountId = h.accountId
                                            /\ (h.currency # "" => o.currency = h.currency)}
              newer(o) == Cardinality({x \in match : x.createdAt > o.createdAt})
              rest == IF Cardinality(match) > h.offset
                      THEN Cardinality(match) - h.offset ELSE 0
          IN /\ \A i \in 1..Len(r) : r[i] \in match /\ newer(r[i]) = h.offset + i - 1
             /\ \A i \in 1..Len(r), j \in 1..Len(r) :
                    i < j => r[i].createdAt > r[j].createdAt
             /\ Len(r) = IF h.limit < rest THEN h.limit ELSE rest]_vars

\* a query for an account with two operations skipped the newer one and
\* returned the older, while the other account has an operation of its own
HistoryWitness ==
    /\ Len(history.result) = 1 /\ history.offset = 1 /\ history.currency = "USD"
    /\ Cardinality({o \in operations : o.accountId = history.accountId}) = 2
    /\ \E o \in operations : o.accountId # history.accountId

\* C21: no history request returns more than 100 operations, whatever limit
\* the query string asks for.
PageSizeBounded ==
    Len(history.result) <= 100

\* C22: a call whose next statement needs the row lock of its (accountId,
\* currency) pair is made to wait only by a call in flight that works on that
\* same pair and holds that row's lock; locks on other pairs never block it.
NoCrossPairBlocking ==
    \A t \in DOMAIN tx :
        (tx[t].pc \in LockPcs /\ ~ENABLED LockStep(t)) =>
            \E u \in DOMAIN tx :
                /\ u # t /\ InFlight(u)
                /\ Target(t) \in {tx[u].accountId, tx[u].toAccountId}
                /\ tx[u].writes[Target(t)].exists

\* two updateBalance calls on different accounts are in flight, each past its
\* UPDATE and holding the lock of its own row
CrossPairWitness ==
    \E t \in DOMAIN tx, u \in DOMAIN tx :
        /\ tx[t].kind = "update" /\ tx[u].kind = "update"
        /\ tx[t].accountId # tx[u].accountId
        /\ InFlight(t) /\ InFlight(u)
        /\ tx[t].pc = "complete" /\ tx[u].pc = "complete"
        /\ tx[t].writes[tx[t].accountId].exists /\ tx[u].writes[tx[u].accountId].exists

\* C23: no two calls are at the same time between their read of one Balance
\* row and their write of it.
ValidateMutateExclusive ==
    ~\E t \in DOMAIN tx, u \in DOMAIN tx :
        /\ t # u /\ tx[t].accountId = tx[u].accountId
        /\ tx[t].kind = "update" /\ tx[u].kind = "update"
        /\ tx[t].pc \in {"createOp", "apply"} /\ tx[u].pc \in {"createOp", "apply"}

\* C24: no step of a behaviour made of transferBalance calls changes the sum
\* of totalBalance over all Balance rows.
TransfersConserveTotal ==
    [][SumOfTotals(balances', Accounts) = SumOfTotals(balances, Accounts)]_vars

\* C25: of two concurrent debits of amount a against available = a at most
\* one returns successfully.
AtMostOneDebitCommits ==
    Cardinality({t \in DOMAIN tx : tx[t].pc = "done"}) <= 1

\* C26: whenever no call is in flight, each account's availableBalance and
\* reservedBalance equal the sums over the completed operations that
\* getBalanceHistory lists for the account.
ReconstructibleFromHistory ==
    Quiescent =>
        \A a \in Accounts :
            LET listed == {o \in MatchingOperations(operations, a, "") :
                              o.status = "completed"}
                sum(type) == SumOfAmounts({o \in listed : o.operationType = type})
                leg(dir) == SumOfAmounts({o \in listed : /\ o.operationType = "transfer"
                                                         /\ o.transferType = dir})
            IN /\ OrZero(balances[a]).available =
                      sum("credit") - sum("debit") - sum("reserve") + sum("release")
                      - leg("outbound") + leg("inbound")
               /\ OrZero(balances[a]).reserved = sum("reserve") - sum("release")

\* C27: a credit of a positive amount that began while its (accountId,
\* currency) pair had no Balance row returns successfully, whatever another
\* call does to that pair meanwhile (storage faults apart).
FirstUseSucceeds ==
    \A t \in DOMAIN tx :
        (/\ tx[t].kind = "update" /\ tx[t].operationType = "credit" /\ tx[t].amount > 0
         /\ ~tx[t].pre[tx[t].accountId].exists
         /\ Finished(t) /\ tx[t].error \notin {"storage fault", "deadlock detected"}) =>
            tx[t].pc = "done"

\* C28: when a call rethrows, no operation row of the call is stored and, for
\* a call nothing overlapped, every Balance row is as the call found it.
ErrorMeansNotCommitted ==
    [][\A t \in DOMAIN tx :
          Rethrows(t) =>
              /\ ~\E o \in operations' : o.id = t
              /\ tx[t].solo => balances' = tx[t].pre]_vars

\* what serving the entries one by one, each on its own, gives: the balance
\* after the last entry and the positions of the entries that succeed
RECURSIVE BulkExpected(_, _, _)
BulkExpected(ops, k, row) ==
    IF k > Len(ops) THEN [row |-> row, ok |-> {}]
    ELSE LET op == ops[k]
             admissible == /\ op.amount # 0
                           /\ op.operationType = "credit" \/ row.available >= op.amount
             rest == BulkExpected(ops, k + 1,
                                  IF admissible
                                  THEN Reference(row, op.operationType, op.amount)
                                  ELSE row)
         IN [row |-> rest.row, ok |-> rest.ok \cup (IF admissible THEN {k} ELSE {})]

\* C29: the bulk-update route serves its entries one at a time in array
\* order, each in a call and transaction of its own; an entry that fails
\* neither undoes the entries that succeeded before it nor keeps the later
\* ones from being attempted; the reported successful and failed counts sum
\* to the number of entries, which is at most 100.
BulkIsPerOperation ==
    /\ \A i \in DOMAIN tx :
          tx[i].pc # "idle" =>
              /\ bulk.pc \in {"loop", "responded"} /\ i <= Len(bulk.operations)
              /\ tx[i].accountId = bulk.operations[i].accountId
              /\ tx[i].operationType = bulk.operations[i].operationType
              /\ tx[i].amount = bulk.operations[i].amount
              /\ tx[i].solo
              /\ \A j \in DOMAIN tx : j < i => Finished(j)
    /\ (bulk.pc = "responded" /\ bulk.status = 200) =>
          LET n == Len(bulk.operations)
              expected == BulkExpected(bulk.operations, 1, Row(MaxInitial, 1, MaxInitial + 1))
          IN /\ n >= 1 /\ n <= 100
             /\ bulk.successful + bulk.failed = n
             /\ \A i \in 1..n : Finished(i) /\ (tx[i].pc = "done" <=> i \in expected.ok)
             /\ {bulk.results[k].index + 1 : k \in 1..Len(bulk.results)} = expected.ok
             /\ {bulk.errors[k].index + 1 : k \in 1..Len(bulk.errors)} = (1..n) \ expected.ok
             /\ bulk.successful = Cardinality(expected.ok)
             /\ balances[1] = expected.row
             /\ {o.id : o \in operations} = expected.ok
    /\ (bulk.pc = "responded" /\ bulk.status # 200) =>
          /\ bulk.status = 400
          /\ Len(bulk.operations) = 0 \/ Len(bulk.operations) > 100
          /\ \A i \in DOMAIN tx : tx[i].pc = "idle"

\* a request of three entries was answered: the first and the third succeeded,
\* the second failed
BulkWitness ==
    /\ bulk.pc = "responded" /\ bulk.status = 200 /\ Len(bulk.operations) = 3
    /\ tx[1].pc = "done" /\ tx[2].pc = "failed" /\ tx[3].pc = "done"
    /\ bulk.successful = 2 /\ bulk.failed = 1

\* C30: a GET request for /{accountId}/history is dispatched to the history
\* handler.
HistoryRouteReachable ==
    (/\ dispatched.method = "GET" /\ Len(dispatched.path) = 2
     /\ dispatched.path[2] = "history") =>
        dispatched.handler = "getBalanceHistory"

====
